---- MODULE Spec2Model ----
(***************************************************************************)
(* Model of the outbound chat pipeline of the Secret Word Challenge        *)
(* backend: POST /api/chat (app/api/routes.py, chat) calling               *)
(* OpenAIService.send_message (app/services/openai_service.py), which      *)
(* assembles and validates the message list and then calls the remote      *)
(* chat-completion API in a retry loop with exponential backoff.           *)
(*                                                                         *)
(* One request is one asyncio task.  Its atomic steps are the pieces of    *)
(* code between two awaits:                                                *)
(*   Chat          chat() up to the first `await create(...)`              *)
(*   CallResolves  the awaited create() resolves; the rest of the try      *)
(*                 body and the except handler run, up to `await sleep`    *)
(*                 or up to the HTTP response                              *)
(*   SleepResolves the awaited sleep() resolves; the loop issues the next  *)
(*                 create()                                                *)
(*   Cancel        the task is cancelled while suspended in an await       *)
(*                                                                         *)
(* The state of task r is task[r]; the locals of its send_message          *)
(* invocation live in the frame locals[invocation_frame(r)].  Spec runs    *)
(* one task over all inputs, SpecTwo interleaves two tasks.                *)
(*                                                                         *)
(* OpenAIService also has the public method health_check, which issues a   *)
(* remote call of its own.  No route of the application calls it (GET      *)
(* /health answers without it), so Spec, SpecTwo and FairSpec have no step *)
(* of it.  SpecService is the service object with a caller of that method  *)
(* next to the request: HealthCheck, HealthResolves, HealthCancel.         *)
(*                                                                         *)
(* Strings are sequences of one-character strings, so that str.strip(),    *)
(* str.lower() and len() are computed and not assumed.  Python's None is   *)
(* the empty sequence <<>> of an optional value and <<v>> is a present     *)
(* value v.                                                                *)
(***************************************************************************)
EXTENDS Integers, Sequences, FiniteSets, TLC

VARIABLES
    system_prompt,  \* what prompt_service.get_system_prompt() returns
    secret_word,    \* settings.secret_word
    task,           \* task[r]: the request, its position and what it did
    locals          \* locals[f]: the locals of a send_message invocation

vars == <<system_prompt, secret_word, task, locals>>

\* Variant: both invocations keep their locals in one shared place (as if
\* they were attributes of a service object shared by the requests).
invocation_frame_shared(r) == 1

\* Each request gets its own OpenAIService (Depends(get_openai_service)) and
\* each send_message invocation its own locals.
invocation_frame(r) == r

\* The state of task 1, by the names of the source.
user_message         == task[1].user_message          \* request.message
conversation_history == task[1].conversation_history  \* request.conversation_history
pc          == task[1].pc           \* where the request's task is suspended
calls       == task[1].calls        \* remote create() calls issued so far
sent        == task[1].sent         \* the arguments of every create() issued
responses   == task[1].responses    \* the outcome of every create() that resolved
sleeps      == task[1].sleeps       \* the wait_time of every `await sleep` started
slept       == task[1].slept        \* how many of these sleeps have completed
invocations == task[1].invocations  \* send_message invocations made by chat()
sm_result   == task[1].sm_result    \* how send_message ended
http        == task[1].http         \* the HTTP response of chat()
health      == task[1].health       \* health_check() calls on the request's service
messages    == locals[invocation_frame(1)].messages    \* local `messages`
attempt     == locals[invocation_frame(1)].attempt     \* the loop variable
last_error  == locals[invocation_frame(1)].last_error  \* local `last_error`

----------------------------------------------------------------------------
(* Bounds and input sets *)

MaxHist == 2   \* longest conversation_history drawn

\* Whitespace characters without an escape in a TLA+ string, written as the
\* characters themselves: U+000B, U+001C..U+001F, U+0085, U+00A0, U+1680.
VT    == ""
FS    == ""
GS    == ""
RS    == ""
US    == ""
NEL   == ""
NBSP  == " "
OGHAM == " "

\* Characters str.strip() removes: those c with c.isspace().  Python has 29
\* of them; the 16 from U+2000 on (U+2000..U+200A, U+2028, U+2029, U+202F,
\* U+205F, U+3000) cannot be written in a string of this language and are
\* not characters of the alphabet here.
Whitespace ==
    {" ", "\t", "\n", "\r", "\f", VT, FS, GS, RS, US, NEL, NBSP, OGHAM}

\* Candidate texts: empty, whitespace-only (space, tab, vertical tab), plain,
\* padded with whitespace.
PromptTexts == { <<>>, <<" ">>, <<"\t">>, <<"p">> }
InputTexts  ==
    { <<>>, <<" ">>, <<"\t">>, <<VT>>, <<"a">>, <<" ", "a", "\n">> }

\* The two secret words of the repository: the default of Settings and the
\* one the tests configure.
ECLIPSE2025 == <<"E", "C", "L", "I", "P", "S", "E", "2", "0", "2", "5">>
TEST_SECRET == <<"T", "E", "S", "T", "_", "S", "E", "C", "R", "E", "T">>
SecretWords == {ECLIPSE2025, TEST_SECRET}

ReplyTexts ==
    { <<>>, <<" ">>, <<"\n", "\t">>, <<"a">>, <<" ", "a", " ">>,
      <<"a", "\n">>, <<"a", "b">>, <<"\t", "a", "b", "\n">>, <<"a", " ", "b">>,
      <<"a", VT>>, <<NEL, "a", "b", NBSP>>,
      ECLIPSE2025,
      <<"e", "c", "l", "i", "p", "s", "e", "2", "0", "2", "5">>,
      <<"a", " ", "E", "c", "l", "i", "p", "s", "e", "2", "0", "2", "5", " ">>,
      <<"E", "C", "L", "I", "P", "S", "E", "2", "0", "2">>,
      <<"E", "2">>,
      TEST_SECRET,
      <<"x", ":", " ", "t", "e", "s", "t", "_", "s", "e", "c", "r", "e", "t">> }

\* The roles a Message can carry: pattern ^(user|assistant|system)$.
MessageRoles == {"user", "assistant", "system"}

\* Roles a client may try to put into a history entry; "tool" stands for any
\* role outside the three.
CandidateRoles == MessageRoles \cup {"tool"}

\* Message (models.py): role matches the pattern and content has
\* min_length 1.  Whitespace-only content passes.
valid_message(m) ==
    /\ m.role \in MessageRoles
    /\ Len(m.content) >= 1

\* Longest message a ChatRequest accepts.
max_length == 4000

\* ChatRequest (models.py): message has min_length 1 and max_length 4000,
\* conversation_history is a list of Message.
valid_chat_request(q) ==
    /\ Len(q.user_message) >= 1
    /\ Len(q.user_message) <= max_length
    /\ \A i \in DOMAIN q.conversation_history :
          valid_message(q.conversation_history[i])

\* The history entries the request model lets through.
Messages ==
    { m \in [role : CandidateRoles, content : InputTexts] : valid_message(m) }

Histories == UNION { [1..n -> Messages] : n \in 0..MaxHist }

\* Messages a client may send: the input texts and one that is a character
\* too long.
CandidateMessages == InputTexts \cup { [i \in 1..(max_length + 1) |-> "a"] }

\* The requests that reach chat(): FastAPI rejects the others before the
\* route function is called.
ChatRequests ==
    { q \in [user_message : CandidateMessages,
             conversation_history : Histories] :
        valid_chat_request(q) }

\* The requests two concurrent clients send (SpecTwo).
TwoRequestInputs ==
    { [user_message |-> <<"a">>, conversation_history |-> <<>>],
      [user_message |-> <<" ", "a", "\n">>,
       conversation_history |-> <<[role |-> "assistant", content |-> <<"a">>]>>] }

\* Exception classes the remote call can raise, as far as the handlers of
\* send_message and chat tell them apart: an OpenAIError, a ValueError, or
\* any other Exception.
ExceptionTypes == {"OpenAIError", "ValueError", "Exception"}

\* What one `await client.chat.completions.create(...)` can resolve to: an
\* exception, or a response whose `choices` is empty or holds one choice whose
\* message may lack the `content` attribute, have content None, or a string.
Outcomes ==
    [kind : {"raise"}, exc : ExceptionTypes, choices : {<<>>}]
    \cup
    [kind : {"response"}, exc : {"none"},
     choices : {<<>>}
               \cup { <<[has_content |-> FALSE, content |-> <<>>]>> }
               \cup { <<[has_content |-> TRUE, content |-> c]>> :
                        c \in {<<>>} \cup { <<t>> : t \in ReplyTexts } }]

----------------------------------------------------------------------------
(* Python string helpers *)

RECURSIVE lstrip(_)
lstrip(s) ==
    IF s # <<>> /\ Head(s) \in Whitespace THEN lstrip(Tail(s)) ELSE s

RECURSIVE rstrip(_)
rstrip(s) ==
    IF s # <<>> /\ s[Len(s)] \in Whitespace
    THEN rstrip(SubSeq(s, 1, Len(s) - 1))
    ELSE s

\* str.strip()
strip(s) == rstrip(lstrip(s))

\* `not s or not s.strip()`
is_blank(s) == s = <<>> \/ strip(s) = <<>>

----------------------------------------------------------------------------
(* Exceptions *)

\* An exception object: its class, its message, and the history index the
\* message names (<<>> when it names none).
Error(type, msg, index) == [type |-> type, msg |-> msg, index |-> index]

ValueError(msg) == Error("ValueError", msg, <<>>)

Ok(msgs)  == [ok |-> TRUE,  messages |-> msgs, error |-> <<>>]
Fail(err) == [ok |-> FALSE, messages |-> <<>>, error |-> <<err>>]

----------------------------------------------------------------------------
(* OpenAIService._build_messages *)

AcceptedRoles == {"user", "assistant", "system"}

\* The `for i, msg in enumerate(conversation_history)` loop, from index i
\* (0-based, as in the source) with the list built so far.
\* Variant: system entries of the history are skipped instead of appended.
RECURSIVE build_history_drop_system(_, _, _)
build_history_drop_system(history, i, msgs) ==
    IF i >= Len(history) THEN Ok(msgs)
    ELSE LET msg == history[i + 1] IN
         IF msg.role \notin {"user", "assistant", "system"}
         THEN Fail(Error("ValueError", "history: invalid role", <<i>>))
         ELSE IF is_blank(msg.content)
         THEN Fail(Error("ValueError", "history: content cannot be empty", <<i>>))
         ELSE IF msg.role = "system"
         THEN build_history_drop_system(history, i + 1, msgs)
         ELSE build_history_drop_system(history, i + 1,
                  Append(msgs, [role |-> msg.role, content |-> msg.content]))

\* Variant: the loop checks the role only and lets blank content through.
RECURSIVE build_history_keep_blank(_, _, _)
build_history_keep_blank(history, i, msgs) ==
    IF i >= Len(history) THEN Ok(msgs)
    ELSE LET msg == history[i + 1] IN
         IF msg.role \notin {"user", "assistant", "system"}
         THEN Fail(Error("ValueError", "history: invalid role", <<i>>))
         ELSE build_history_keep_blank(history, i + 1,
                  Append(msgs, [role |-> msg.role, content |-> msg.content]))

\* Variant: the content is appended as it was checked, trimmed.
RECURSIVE build_history_trimmed(_, _, _)
build_history_trimmed(history, i, msgs) ==
    IF i >= Len(history) THEN Ok(msgs)
    ELSE LET msg == history[i + 1] IN
         IF msg.role \notin {"user", "assistant", "system"}
         THEN Fail(Error("ValueError", "history: invalid role", <<i>>))
         ELSE IF is_blank(msg.content)
         THEN Fail(Error("ValueError", "history: content cannot be empty", <<i>>))
         ELSE build_history_trimmed(history, i + 1,
                  Append(msgs, [role |-> msg.role,
                                content |-> strip(msg.content)]))

RECURSIVE build_history(_, _, _)
build_history(history, i, msgs) ==
    IF i >= Len(history) THEN Ok(msgs)
    ELSE LET msg == history[i + 1] IN
         IF msg.role \notin AcceptedRoles
         THEN Fail(Error("ValueError", "history: invalid role", <<i>>))
         ELSE IF is_blank(msg.content)
         THEN Fail(Error("ValueError", "history: content cannot be empty", <<i>>))
         ELSE build_history(history, i + 1,
                  Append(msgs, [role |-> msg.role, content |-> msg.content]))

\* Variant: the user message is checked before the history is walked.
build_messages_user_first(prompt, message, history) ==
    IF is_blank(prompt)
    THEN Fail(ValueError("System prompt cannot be empty"))
    ELSE IF is_blank(message)
    THEN Fail(ValueError("User message cannot be empty"))
    ELSE LET h == build_history(history, 0,
                      <<[role |-> "system", content |-> prompt]>>) IN
         IF ~h.ok THEN h
         ELSE Ok(Append(h.messages, [role |-> "user", content |-> message]))

\* _build_messages, lines 59-80.
build_messages(prompt, message, history) ==
    IF is_blank(prompt)
    THEN Fail(ValueError("System prompt cannot be empty"))
    ELSE LET h == build_history(history, 0,
                      <<[role |-> "system", content |-> prompt]>>) IN
         IF ~h.ok THEN h
         ELSE IF is_blank(message)
         THEN Fail(ValueError("User message cannot be empty"))
         ELSE Ok(Append(h.messages, [role |-> "user", content |-> message]))

----------------------------------------------------------------------------
(* OpenAIService._validate_messages: <<>> when it returns, <<e>> when it
   raises e.  Every element built above is a dict with a str content, so the
   isinstance and key checks of the source cannot fail and are left out. *)

RECURSIVE validate_each(_, _)
validate_each(msgs, i) ==
    IF i >= Len(msgs) THEN <<>>
    ELSE LET msg == msgs[i + 1] IN
         IF msg.role \notin {"system", "user", "assistant"}
         THEN <<Error("ValueError", "invalid role", <<i>>)>>
         ELSE IF strip(msg.content) = <<>>
         THEN <<Error("ValueError", "content cannot be empty", <<i>>)>>
         ELSE validate_each(msgs, i + 1)

validate_messages(msgs) ==
    LET roles == { msgs[k].role : k \in DOMAIN msgs } IN
    IF msgs = <<>> THEN <<ValueError("message list is empty")>>
    ELSE IF "system" \notin roles THEN <<ValueError("no system prompt")>>
    ELSE IF "user" \notin roles THEN <<ValueError("no user message")>>
    ELSE validate_each(msgs, 0)

\* Variant: the list is assembled and dispatched without any validation.
prepare_unchecked(prompt, message, history) ==
    Ok(<<[role |-> "system", content |-> prompt]>>
       \o history
       \o <<[role |-> "user", content |-> message]>>)

\* send_message, lines 138-142: build, then validate, before the loop.
prepare(prompt, message, history) ==
    LET b == build_messages(prompt, message, history) IN
    IF ~b.ok THEN b
    ELSE LET v == validate_messages(b.messages) IN
         IF v # <<>> THEN Fail(v[1]) ELSE b

----------------------------------------------------------------------------
(* The retry loop of send_message *)

\* Variant: one retry more.
max_retries_plus_one == 3 + 1

max_retries_on_error == 3

\* The try body once create() has resolved to outcome o: it returns the
\* content, or an exception reaches the except clause.
Returned(text) == [returned |-> TRUE,  value |-> text, error |-> <<>>]
Raised(err)    == [returned |-> FALSE, value |-> <<>>, error |-> <<err>>]

\* Variant: the "suspiciously short" check is missing.
check_content_no_length(assistant_message) ==
    IF assistant_message = <<>> \/ strip(assistant_message[1]) = <<>>
    THEN Raised(ValueError("API returned empty or whitespace-only response"))
    ELSE Returned(assistant_message[1])

\* Lines 167-177: the content checks on message.content (<<>> is None).
check_content(assistant_message) ==
    IF assistant_message = <<>> \/ strip(assistant_message[1]) = <<>>
    THEN Raised(ValueError("API returned empty or whitespace-only response"))
    ELSE IF Len(strip(assistant_message[1])) <= 1
    THEN Raised(ValueError("API returned suspiciously short response"))
    ELSE Returned(assistant_message[1])

try_body(o) ==
    IF o.kind = "raise"
    THEN Raised(Error(o.exc, "remote call failed", <<>>))
    ELSE IF o.choices = <<>>
    THEN Raised(ValueError("API returned no choices"))
    ELSE LET message == o.choices[1] IN
         IF ~message.has_content
         THEN Raised(ValueError("API response missing content field"))
         ELSE check_content(message.content)

\* `if isinstance(e, ValueError)`: raised at once, never retried.
is_validation_error(e) == e.type = "ValueError"

\* Variant: `2 * attempt` for `2 ** attempt`.
wait_time_product(n) == 2 * n

\* `wait_time = 2 ** attempt`
wait_time(n) == 2 ^ n

\* Variant: the loop bound is off by one (`<=` for `<`).
attempts_remain_inclusive(n) == n <= max_retries_on_error

\* `if attempt < self.max_retries_on_error`
attempts_remain(n) == n < max_retries_on_error

\* Variant: the coroutine sleep(wait_time) is created but not awaited.
sleep_not_awaited == FALSE

\* `await sleep(wait_time)`: the loop is suspended until the sleep is over.
sleep_is_awaited == TRUE

\* Variant: a handler that catches BaseException.
caught_by_except_any(e) == TRUE

\* `except (OpenAIError, ValueError, Exception) as e`: asyncio.CancelledError
\* derives from BaseException and is not caught.
caught_by_except(e) == e.type \in {"OpenAIError", "ValueError", "Exception"}

\* Variant: the sampling temperature grows with the attempt.
create_args_by_attempt(msgs, n) ==
    [model |-> "model_name", messages |-> msgs, max_tokens |-> 1024,
     temperature |-> IF n = 0 THEN "0.44" ELSE "0.54", top_p |-> "0.9",
     frequency_penalty |-> "0.3"]

\* The keyword arguments of create() at loop iteration n (lines 150-157);
\* nothing of the loop state enters them.
create_args(msgs, n) ==
    [model |-> "model_name", messages |-> msgs, max_tokens |-> 1024,
     temperature |-> "0.44", top_p |-> "0.9", frequency_penalty |-> "0.3"]

----------------------------------------------------------------------------
(* PromptService.check_secret_revealed: app/services/prompt_service.py is
   not part of the sources at hand; modelled from the specification (4.1:
   "a case-insensitive substring test of the configured secret word against
   the candidate text") and from the tests of TestPromptService.  The word
   is the setting secret_word. *)

\* The capital letters and their small letters (str.lower() also maps the
\* capital letters of other scripts; the texts here use these only).
UpperToLower ==
    [c \in {"A", "B", "C", "D", "E", "F", "G", "H", "I", "J", "K", "L", "M",
            "N", "O", "P", "Q", "R", "S", "T", "U", "V", "W", "X", "Y", "Z"} |->
        CASE c = "A" -> "a" [] c = "B" -> "b" [] c = "C" -> "c" [] c = "D" -> "d"
          [] c = "E" -> "e" [] c = "F" -> "f" [] c = "G" -> "g" [] c = "H" -> "h"
          [] c = "I" -> "i" [] c = "J" -> "j" [] c = "K" -> "k" [] c = "L" -> "l"
          [] c = "M" -> "m" [] c = "N" -> "n" [] c = "O" -> "o" [] c = "P" -> "p"
          [] c = "Q" -> "q" [] c = "R" -> "r" [] c = "S" -> "s" [] c = "T" -> "t"
          [] c = "U" -> "u" [] c = "V" -> "v" [] c = "W" -> "w" [] c = "X" -> "x"
          [] c = "Y" -> "y" [] c = "Z" -> "z"]

\* str.lower()
lower(s) == [i \in DOMAIN s |->
                IF s[i] \in DOMAIN UpperToLower THEN UpperToLower[s[i]] ELSE s[i]]

\* `word in text`
contains(text, word) ==
    \E i \in 0..(Len(text) - Len(word)) :
        SubSeq(text, i + 1, i + Len(word)) = word

check_secret_revealed(response) ==
    contains(lower(response), lower(secret_word))

----------------------------------------------------------------------------
(* chat(): the HTTP response *)

HTTP_200_OK == 200
HTTP_503_SERVICE_UNAVAILABLE == 503
HTTP_500_INTERNAL_SERVER_ERROR == 500

\* `except OpenAIError` -> 503, `except Exception` -> 500
status_for(e) ==
    IF e.type = "OpenAIError" THEN HTTP_503_SERVICE_UNAVAILABLE
    ELSE HTTP_500_INTERNAL_SERVER_ERROR

NoResult == [kind |-> "none", value |-> <<>>, error |-> <<>>, site |-> "none"]
NoHttp   == [status |-> 0, response |-> <<>>, is_secret_revealed |-> FALSE]

\* Variant: the flag is not passed and keeps its default, False.
Return_default_flag(v, text) ==
    [v EXCEPT !.sm_result = [kind |-> "return", value |-> text,
                             error |-> <<>>, site |-> "return"],
              !.http = [status |-> HTTP_200_OK, response |-> text,
                        is_secret_revealed |-> FALSE],
              !.pc = "done"]

\* send_message returns text; chat checks it for the secret word and answers
\* 200 with ChatResponse(response, is_secret_revealed).
Return(v, text) ==
    [v EXCEPT !.sm_result = [kind |-> "return", value |-> text,
                             error |-> <<>>, site |-> "return"],
              !.http = [status |-> HTTP_200_OK, response |-> text,
                        is_secret_revealed |-> check_secret_revealed(text)],
              !.pc = "done"]

\* send_message raises e at `site`; chat maps it to an HTTPException.
Raise(v, e, site) ==
    [v EXCEPT !.sm_result = [kind |-> "raise", value |-> <<>>,
                             error |-> <<e>>, site |-> site],
              !.http = [status |-> status_for(e), response |-> <<>>,
                        is_secret_revealed |-> FALSE],
              !.pc = "done"]

\* e (a CancelledError) is caught neither by send_message nor by the
\* `except Exception` of chat: the task unwinds without a response.
Unwind(v, e) ==
    [v EXCEPT !.sm_result = [kind |-> "raise", value |-> <<>>,
                             error |-> <<e>>, site |-> "cancelled"],
              !.pc = "cancelled"]

----------------------------------------------------------------------------
(* The steps of one request.  v is the request's state together with the
   locals of its invocation; every step gives the state it leaves. *)

\* Loop iteration n: `await create(model=..., messages=messages, ...)`.
issue_call(v, n) ==
    [v EXCEPT !.attempt = n,
              !.calls = @ + 1,
              !.sent = Append(@, create_args(v.messages, n)),
              !.pc = "awaiting_call"]

\* The for loop takes its next value, or is exhausted and falls through to
\* the safety net after the loop (lines 203-206).
next_iteration(v) ==
    IF v.attempt + 1 <= max_retries_on_error
    THEN issue_call(v, v.attempt + 1)
    ELSE IF v.last_error # <<>>
    THEN Raise(v, v.last_error[1], "safety_net")
    ELSE Raise(v, Error("OpenAIError", "Failed after all attempts", <<>>),
               "safety_net")

\* The except clause body, lines 180-201, for the caught exception e.
except_handler(v, e) ==
    LET w == [v EXCEPT !.last_error = <<e>>] IN
    IF is_validation_error(e) THEN Raise(w, e, "no_retry")
    ELSE IF attempts_remain(v.attempt)
    THEN LET z == [w EXCEPT !.sleeps = Append(@, wait_time(v.attempt))] IN
         IF sleep_is_awaited THEN [z EXCEPT !.pc = "sleeping"]
         ELSE next_iteration(z)
    ELSE Raise(w, e, "exhausted")

\* An exception e leaves the try body.
on_exception(v, e) ==
    IF caught_by_except(e) THEN except_handler(v, e) ELSE Unwind(v, e)

\* chat() runs send_message up to its first await: the message list is built
\* and validated, and either that raises or attempt 0 is issued.
chat_step(prompt, v) ==
    LET w == [v EXCEPT !.invocations = @ + 1]
        p == prepare(prompt, v.user_message, v.conversation_history)
    IN  IF ~p.ok THEN Raise(w, p.error[1], "prepare")
        ELSE issue_call([w EXCEPT !.messages = p.messages,
                                  !.last_error = <<>>], 0)

\* The awaited create() resolves to outcome o.
call_step(v, o) ==
    LET w == [v EXCEPT !.responses = Append(@, o)]
        r == try_body(o)
    IN  IF r.returned THEN Return(w, r.value)
        ELSE on_exception(w, r.error[1])

\* The awaited sleep() resolves.
sleep_step(v) == next_iteration([v EXCEPT !.slept = @ + 1])

\* The task is cancelled: CancelledError is raised at the await it is
\* suspended in, inside the try body (create) or inside the except clause
\* (sleep), where no handler is around it.
cancel_step(v) ==
    LET e == Error("CancelledError", "task cancelled", <<>>) IN
    IF v.pc = "awaiting_call" THEN on_exception(v, e) ELSE Unwind(v, e)

----------------------------------------------------------------------------
(* OpenAIService.health_check, lines 208-230 *)

MaxProbes == 1   \* health_check() calls made on one service

\* The keyword arguments of its create(): one user message, no system
\* prompt, no sampling parameters.
health_check_args ==
    [model |-> "model_name",
     messages |-> <<[role |-> "user",
                     content |-> <<"h", "e", "a", "l", "t", "h", " ",
                                   "c", "h", "e", "c", "k">>]>>,
     max_tokens |-> 5]

\* What its `await create(...)` can resolve to: as for send_message, or None.
HealthOutcomes ==
    Outcomes \cup {[kind |-> "none", exc |-> "none", choices |-> <<>>]}

\* No health_check() has been called.
NoHealth ==
    [pc |-> "idle", sent |-> <<>>, responses |-> <<>>, returned |-> <<>>]

\* health_check up to its `await create(...)`: nothing is assembled or
\* validated and the prompt service is not consulted.
health_check_step(v) ==
    [v EXCEPT !.health = [@ EXCEPT !.pc = "awaiting_health",
                                   !.sent = Append(@, health_check_args)]]

\* The awaited create() resolves to o: True for a response with at least one
\* choice; False for None, for a response without choices and for every
\* exception (`except Exception`).  There is no retry.
health_resolve_step(v, o) ==
    [v EXCEPT !.health =
        [@ EXCEPT !.pc = "idle",
                  !.responses = Append(@, o),
                  !.returned =
                      Append(@, o.kind = "response" /\ o.choices # <<>>)]]

\* The caller is cancelled in the await: CancelledError is not an Exception
\* and leaves health_check.
health_cancel_step(v) ==
    [v EXCEPT !.health = [@ EXCEPT !.pc = "cancelled"]]

----------------------------------------------------------------------------
(* The state machine *)

\* A chat request that has reached chat().
NewTask(req) ==
    [user_message |-> req.user_message,
     conversation_history |-> req.conversation_history,
     pc |-> "received", calls |-> 0, sent |-> <<>>, responses |-> <<>>,
     sleeps |-> <<>>, slept |-> 0, invocations |-> 0,
     sm_result |-> NoResult, http |-> NoHttp, health |-> NoHealth]

NoLocals == [messages |-> <<>>, attempt |-> 0, last_error |-> <<>>]

\* Task r together with the locals of its invocation.
View(r) ==
    LET t == task[r]
        l == locals[invocation_frame(r)]
    IN [user_message |-> t.user_message,
        conversation_history |-> t.conversation_history,
        pc |-> t.pc, calls |-> t.calls, sent |-> t.sent,
        responses |-> t.responses, sleeps |-> t.sleeps, slept |-> t.slept,
        invocations |-> t.invocations, sm_result |-> t.sm_result,
        http |-> t.http, health |-> t.health,
        messages |-> l.messages, attempt |-> l.attempt,
        last_error |-> l.last_error]

\* Task r and its locals become v.
Becomes(r, v) ==
    /\ task' = [task EXCEPT ![r] =
                  [user_message |-> v.user_message,
                   conversation_history |-> v.conversation_history,
                   pc |-> v.pc, calls |-> v.calls, sent |-> v.sent,
                   responses |-> v.responses, sleeps |-> v.sleeps,
                   slept |-> v.slept, invocations |-> v.invocations,
                   sm_result |-> v.sm_result, http |-> v.http,
                   health |-> v.health]]
    /\ locals' = [locals EXCEPT ![invocation_frame(r)] =
                    [messages |-> v.messages, attempt |-> v.attempt,
                     last_error |-> v.last_error]]
    /\ UNCHANGED <<system_prompt, secret_word>>

\* One task: a chat request that passed the request model, with any prompt
\* and either secret word.
Init ==
    /\ system_prompt \in PromptTexts
    /\ secret_word \in SecretWords
    /\ \E q \in ChatRequests : task = [r \in {1} |-> NewTask(q)]
    /\ locals = [f \in {invocation_frame(1)} |-> NoLocals]

\* Two tasks started at the same time.
InitTwo ==
    /\ system_prompt = <<"p">>
    /\ secret_word = ECLIPSE2025
    /\ task \in [{1, 2} -> {NewTask(q) : q \in TwoRequestInputs}]
    /\ locals = [f \in {invocation_frame(r) : r \in {1, 2}} |-> NoLocals]

\* One task with a history of at most one entry: what the invocation does
\* after assembly does not depend on the history.
InitShortHistory ==
    /\ system_prompt \in PromptTexts
    /\ secret_word = ECLIPSE2025
    /\ \E q \in {x \in ChatRequests : Len(x.conversation_history) <= 1} :
          task = [r \in {1} |-> NewTask(q)]
    /\ locals = [f \in {invocation_frame(1)} |-> NoLocals]

Chat(r) ==
    /\ task[r].pc = "received"
    /\ Becomes(r, chat_step(system_prompt, View(r)))

CallResolves(r) ==
    /\ task[r].pc = "awaiting_call"
    /\ \E o \in Outcomes : Becomes(r, call_step(View(r), o))

SleepResolves(r) ==
    /\ task[r].pc = "sleeping"
    /\ Becomes(r, sleep_step(View(r)))

Cancel(r) ==
    /\ task[r].pc \in {"awaiting_call", "sleeping"}
    /\ Becomes(r, cancel_step(View(r)))

Next ==
    \/ \E r \in DOMAIN task : Chat(r)
    \/ \E r \in DOMAIN task : CallResolves(r)
    \/ \E r \in DOMAIN task : SleepResolves(r)
    \/ \E r \in DOMAIN task : Cancel(r)

\* A caller awaits health_check() on the service of request r, whatever the
\* request is doing.
HealthCheck(r) ==
    /\ task[r].health.pc = "idle"
    /\ Len(task[r].health.sent) < MaxProbes
    /\ Becomes(r, health_check_step(View(r)))

HealthResolves(r) ==
    /\ task[r].health.pc = "awaiting_health"
    /\ \E o \in HealthOutcomes : Becomes(r, health_resolve_step(View(r), o))

HealthCancel(r) ==
    /\ task[r].health.pc = "awaiting_health"
    /\ Becomes(r, health_cancel_step(View(r)))

\* The steps of the request and of a caller of health_check.
NextService ==
    \/ \E r \in DOMAIN task : Chat(r)
    \/ \E r \in DOMAIN task : CallResolves(r)
    \/ \E r \in DOMAIN task : SleepResolves(r)
    \/ \E r \in DOMAIN task : Cancel(r)
    \/ \E r \in DOMAIN task : HealthCheck(r)
    \/ \E r \in DOMAIN task : HealthResolves(r)
    \/ \E r \in DOMAIN task : HealthCancel(r)

Spec == Init /\ [][Next]_vars

\* The request and a direct caller of health_check on its service.
SpecService == InitShortHistory /\ [][NextService]_vars

SpecTwo == InitTwo /\ [][Next]_vars

\* The event loop runs a ready task, and every awaited remote call and every
\* awaited sleep eventually resolves.
FairSpec ==
    /\ InitShortHistory
    /\ [][Next]_vars
    /\ WF_vars(Chat(1))
    /\ WF_vars(CallResolves(1))
    /\ WF_vars(SleepResolves(1))

----------------------------------------------------------------------------
(* Vocabulary of the properties, stated on the texts themselves and not
   through the operators above *)

\* s is empty or holds whitespace only.
Blank(s) ==
    \A i \in DOMAIN s :
        s[i] \in {" ", "\t", "\n", "\r", "\f",
                  VT, FS, GS, RS, US, NEL, NBSP, OGHAM}

\* s keeps at least two characters once surrounding whitespace is trimmed.
TrimsToTwoOrMore(s) ==
    \E i, j \in DOMAIN s : i < j /\ ~Blank(<<s[i]>>) /\ ~Blank(<<s[j]>>)

\* The call returned a response carrying a content string.
HasText(o) ==
    /\ o.kind = "response"
    /\ o.choices # <<>>
    /\ o.choices[1].has_content
    /\ o.choices[1].content # <<>>

TextOf(o) == o.choices[1].content[1]

\* Degenerate content: empty, whitespace-only, or one character once trimmed.
Degenerate(o) == HasText(o) /\ ~TrimsToTwoOrMore(TextOf(o))

\* Malformed shape: no choices, or a first choice whose content is missing
\* or not populated.
Malformed(o) == o.kind = "response" /\ ~HasText(o)

\* A valid reply.
Valid(o) == HasText(o) /\ TrimsToTwoOrMore(TextOf(o))

\* The remote call itself failed with a provider error (OpenAIError) or an
\* unexpected exception.
TransportFailure(o) == o.kind = "raise" /\ o.exc \in {"OpenAIError", "Exception"}

\* The class of the exception an unsuccessful attempt ends with.
FailureClass(o) == IF o.kind = "raise" THEN o.exc ELSE "ValueError"

Last(seq) == seq[Len(seq)]

RaisedClass == IF sm_result.error = <<>> THEN "none" ELSE sm_result.error[1].type

----------------------------------------------------------------------------
(* C1: degenerate content *)

\* C1 as stated: when every remote call of an invocation returns degenerate
\* content, the invocation issues exactly 4 remote calls, sleeping 1, 2, 4
\* in between, and then fails.
C1_DegenerateRetried ==
    /\ (/\ pc = "done"
        /\ responses # <<>>
        /\ \A n \in DOMAIN responses : Degenerate(responses[n]))
       => (/\ calls = 4
           /\ sleeps = <<1, 2, 4>>
           /\ sm_result.kind = "raise")

----------------------------------------------------------------------------
(* C2: malformed response shape *)

\* C2 as stated: a malformed response on attempt n < 3 (0-based; the n-th
\* response here is attempt n-1) is followed by a sleep of delay(n) and by
\* the next attempt.
C2_MalformedRetried ==
    /\ \A n \in DOMAIN responses :
           (Malformed(responses[n]) /\ n <= 3) =>
               /\ Len(sleeps) >= n
               /\ sleeps[n] = 2 ^ (n - 1)
               /\ (pc = "sleeping" \/ calls >= n + 1)

----------------------------------------------------------------------------
(* C3: k transport failures, then a valid text *)

RECURSIVE SumSeq(_)
SumSeq(seq) == IF seq = <<>> THEN 0 ELSE Head(seq) + SumSeq(Tail(seq))

\* C3: when the first k attempts (k in 0..3) fail with a transport/provider
\* error and attempt k+1 returns a valid text, the invocation returns exactly
\* that text, has issued exactly k+1 remote calls and issues none afterwards,
\* and has slept 2^0, ..., 2^(k-1), in total 2^k - 1.
C3_RetryThenSuccess ==
    /\ (/\ responses # <<>>
        /\ Valid(Last(responses))
        /\ \A n \in 1..(Len(responses) - 1) : TransportFailure(responses[n]))
       => LET k == Len(responses) - 1 IN
          /\ k \in 0..3
          /\ pc = "done"
          /\ sm_result.kind = "return"
          /\ sm_result.value = TextOf(Last(responses))
          /\ calls = k + 1
          /\ sleeps = [i \in 1..k |-> 2 ^ (i - 1)]
          /\ SumSeq(sleeps) = 2 ^ k - 1
          /\ ~ENABLED Next

\* Two failures, then a padded valid text on the third attempt.
C3_Witness ==
    /\ pc = "done"
    /\ Len(responses) = 3
    /\ responses[1].kind = "raise" /\ responses[1].exc = "OpenAIError"
    /\ responses[2].kind = "raise" /\ responses[2].exc = "Exception"
    /\ Valid(responses[3])
    /\ sm_result.kind = "return"
    /\ SumSeq(sleeps) = 1 + 2

----------------------------------------------------------------------------
(* C4: at most 4 remote calls per request *)

\* C4: a request never issues more than 4 remote calls; after the 4th failed
\* attempt the client stops and raises the error of that attempt; chat()
\* invokes the client once and every remote call belongs to that invocation.
C4_AtMostFourCalls ==
    /\ calls <= 4
    /\ Len(responses) <= calls
    /\ invocations <= 1
    /\ (calls > 0 => invocations = 1)
    /\ (Len(responses) = 4 /\ ~Valid(responses[4])) =>
          /\ pc = "done"
          /\ calls = 4
          /\ sm_result.kind = "raise"
          /\ RaisedClass = FailureClass(responses[4])
          /\ last_error = sm_result.error
          /\ ~ENABLED Next

\* Four transport failures in a row.
C4_Witness ==
    /\ pc = "done"
    /\ calls = 4
    /\ \A n \in 1..4 : TransportFailure(responses[n])
    /\ sm_result.kind = "raise"
    /\ sm_result.site = "exhausted"

----------------------------------------------------------------------------
(* C5: the backoff sequence *)

Succeeded(o) == Valid(o)

\* C5: the n-th sleep (after failed attempt n-1, 0-based) lasts 2^(n-1), so
\* the sleeps are 1, 2, 4; every sleep follows a failed attempt and (unless
\* the task is cancelled during it) is followed by the next attempt; no sleep
\* follows the 4th attempt.
C5_BackoffSequence ==
    /\ Len(sleeps) <= 3
    /\ \A n \in DOMAIN sleeps :
          /\ sleeps[n] = 2 ^ (n - 1)
          /\ n <= Len(responses)
          /\ ~Succeeded(responses[n])
    /\ (pc = "sleeping" => Len(sleeps) = calls /\ Len(responses) = calls)
    /\ (pc \notin {"sleeping", "cancelled"} /\ calls > 0
          => Len(sleeps) = calls - 1)
    /\ (pc = "cancelled" => Len(sleeps) = Len(responses))
    /\ (calls = 0 => sleeps = <<>>)
    /\ (Len(responses) = 4 => pc = "done" /\ Len(sleeps) = 3)

\* All three sleeps were taken and the 4th attempt failed too.
C5_Witness ==
    /\ pc = "done"
    /\ sleeps = <<1, 2, 4>>
    /\ Len(responses) = 4
    /\ TransportFailure(responses[4])

----------------------------------------------------------------------------
(* C6: what send_message returns *)

\* C6: a returned string is the unmodified content of the response to the
\* last attempt issued, that response has the expected shape, and the string
\* trims to at least 2 characters; every other finished invocation raised
\* and returned nothing.
C6_ReturnsValidatedText ==
    /\ sm_result.kind = "return" =>
          /\ pc = "done"
          /\ responses # <<>>
          /\ calls = Len(responses)
          /\ HasText(Last(responses))
          /\ sm_result.value = TextOf(Last(responses))
          /\ TrimsToTwoOrMore(sm_result.value)
          /\ sm_result.error = <<>>
    /\ (pc \in {"done", "cancelled"} /\ sm_result.kind # "return") =>
          /\ sm_result.kind = "raise"
          /\ sm_result.value = <<>>
          /\ sm_result.error # <<>>
    /\ (pc \notin {"done", "cancelled"} => sm_result.kind = "none")

\* A padded text is returned with its padding.
C6_Witness ==
    /\ pc = "done"
    /\ sm_result.kind = "return"
    /\ sm_result.value = <<"\t", "a", "b", "\n">>

----------------------------------------------------------------------------
(* C7, C8: message assembly *)

WellFormedEntry(m) == m.role \in {"system", "user", "assistant"} /\ ~Blank(m.content)

WellFormedHistory == \A i \in DOMAIN conversation_history :
                        WellFormedEntry(conversation_history[i])

SystemTurns(seq) == { k \in DOMAIN seq : seq[k].role = "system" }

\* C7 as stated (with the non-blank system prompt the Prompt Provider
\* promises): for a non-blank user_message and a well-formed history the
\* built sequence holds exactly one system Turn, the first, and ends with the
\* user Turn of user_message.
C7_ExactlyOneSystemTurn ==
    /\ (/\ pc # "received"
        /\ ~Blank(system_prompt) /\ ~Blank(user_message) /\ WellFormedHistory)
       => (/\ messages # <<>>
           /\ SystemTurns(messages) = {1}
           /\ Last(messages) = [role |-> "user", content |-> user_message])

\* C7 amended: for a non-blank system prompt, a non-blank user_message and a
\* well-formed history the built sequence starts with the system Turn of the
\* system prompt and ends with the user Turn of user_message; system entries
\* of the caller's history are not dropped but kept in place, so the sequence
\* holds 1 + (number of system entries of the history) system Turns.
C7_SystemFirstUserLast ==
    (/\ pc # "received"
     /\ ~Blank(system_prompt) /\ ~Blank(user_message) /\ WellFormedHistory)
    => (/\ Len(messages) = Len(conversation_history) + 2
        /\ messages[1] = [role |-> "system", content |-> system_prompt]
        /\ Last(messages) = [role |-> "user", content |-> user_message]
        /\ \A i \in DOMAIN conversation_history :
              conversation_history[i].role = "system"
                 => messages[i + 1] = conversation_history[i]
        /\ Cardinality(SystemTurns(messages))
              = 1 + Cardinality(SystemTurns(conversation_history)))

\* A history with a system entry was assembled: two system Turns are sent.
C7_Witness ==
    /\ pc = "awaiting_call"
    /\ Len(conversation_history) = 2
    /\ conversation_history[2].role = "system"
    /\ conversation_history[1].role = "assistant"
    /\ SystemTurns(messages) = {1, 3}

InvalidInput ==
    \/ Blank(system_prompt)
    \/ Blank(user_message)
    \/ \E i \in DOMAIN conversation_history :
          \/ conversation_history[i].role \notin {"user", "assistant", "system"}
          \/ Blank(conversation_history[i].content)

\* C8: when the system prompt or the user message is blank, or a history
\* entry has a role outside {user, assistant, system} or blank content, the
\* request fails with the invalid-input failure (ValueError) with no remote
\* call issued and no backoff sleep taken.
C8_InvalidInputNoCall ==
    /\ InvalidInput =>
           \/ pc = "received"
           \/ /\ pc = "done"
              /\ sm_result.kind = "raise"
              /\ RaisedClass = "ValueError"
              /\ sm_result.site = "prepare"
              /\ calls = 0
              /\ sleeps = <<>>
              /\ responses = <<>>
              /\ messages = <<>>

\* A request whose second history entry holds a tab only has failed in
\* assembly.
C8_Witness ==
    /\ pc = "done"
    /\ ~Blank(system_prompt) /\ ~Blank(user_message)
    /\ Len(conversation_history) = 2
    /\ WellFormedEntry(conversation_history[1])
    /\ conversation_history[2].content = <<"\t">>
    /\ sm_result.site = "prepare"
    /\ calls = 0

----------------------------------------------------------------------------
(* C9, C10: the HTTP status of failures *)

\* C9: a request that ends because of an upstream-originating failure (a
\* failed remote call, a malformed response, degenerate content) is answered
\* 503 Service Unavailable, never 500.
C9_UpstreamFailureIs503 ==
    /\ (/\ pc = "done"
        /\ responses # <<>>
        /\ sm_result.kind = "raise"
        /\ \/ TransportFailure(Last(responses))
           \/ Malformed(Last(responses))
           \/ Degenerate(Last(responses)))
       => http.status = 503

\* C10: a request that ends because message assembly raised the invalid-input
\* failure is answered with a client error (4xx), neither 503 nor 500.
C10_InvalidInputIsClientError ==
    /\ (pc = "done" /\ sm_result.kind = "raise" /\ sm_result.site = "prepare")
           => (/\ RaisedClass = "ValueError"
               /\ http.status \in 400..499)

----------------------------------------------------------------------------
(* C11: the reply and the leak flag *)

Capitals == <<"A", "B", "C", "D", "E", "F", "G", "H", "I", "J", "K", "L", "M",
             "N", "O", "P", "Q", "R", "S", "T", "U", "V", "W", "X", "Y", "Z">>
Smalls   == <<"a", "b", "c", "d", "e", "f", "g", "h", "i", "j", "k", "l", "m",
             "n", "o", "p", "q", "r", "s", "t", "u", "v", "w", "x", "y", "z">>

\* a and b are the same character, or the capital and the small form of one
\* letter.
SameLetter(a, b) ==
    a = b \/ \E i \in DOMAIN Capitals : {a, b} = {Capitals[i], Smalls[i]}

\* word occurs in text as a substring, letter case ignored.
OccursIgnoringCase(word, text) ==
    \E i \in 1..(Len(text) - Len(word) + 1) :
        \A j \in 1..Len(word) : SameLetter(text[i + j - 1], word[j])

\* C11: a successful request answers with the text send_message returned,
\* unchanged, and is_secret_revealed is true exactly when the configured
\* secret word occurs in it, letter case ignored; the flag is computed only
\* once a validated reply exists, and no remote call follows it.
C11_ReplyAndLeakFlag ==
    /\ (sm_result.kind = "return" <=> http.status = 200)
    /\ http.status = 200 =>
          /\ pc = "done"
          /\ Valid(Last(responses))
          /\ http.response = sm_result.value
          /\ http.response = TextOf(Last(responses))
          /\ http.is_secret_revealed
                <=> OccursIgnoringCase(secret_word, http.response)
          /\ calls = Len(responses)
          /\ ~ENABLED Next
    /\ http.status # 200 => ~http.is_secret_revealed

\* The default secret word, capitalised only, inside a longer reply is
\* flagged.
C11_Witness ==
    /\ secret_word = ECLIPSE2025
    /\ http.status = 200
    /\ http.response = <<"a", " ", "E", "c", "l", "i", "p", "s", "e",
                         "2", "0", "2", "5", " ">>
    /\ http.is_secret_revealed


----------------------------------------------------------------------------
(* Cancellation *)

\* The request leaves an await although neither a response of the remote
\* call nor the end of a sleep was delivered: the caller cancelled it.
CancellationArrives ==
    /\ pc \in {"awaiting_call", "sleeping"}
    /\ responses' = responses
    /\ slept' = slept
    /\ vars' # vars

\* C12: a cancellation that arrives while the invocation awaits the remote
\* call or a backoff sleep unwinds it with the cancellation; the step issues
\* no remote call and starts no sleep, the cancellation is not recorded as
\* the last error of a retry, and once unwound the request takes no further
\* step at all.
C12_CancellationUnwinds ==
    /\ [][CancellationArrives =>
            /\ pc' = "cancelled"
            /\ sm_result'.kind = "raise"
            /\ sm_result'.error[1].type = "CancelledError"
            /\ calls' = calls /\ sent' = sent
            /\ sleeps' = sleeps
            /\ last_error' = last_error
            /\ attempt' = attempt
            /\ http' = http]_vars
    /\ [](pc = "cancelled" => ~ENABLED Next)
    /\ [](RaisedClass = "CancelledError" => pc = "cancelled")

\* Cancelled while the second remote call was outstanding.
C12_Witness ==
    /\ pc = "cancelled"
    /\ calls = 2 /\ Len(responses) = 1 /\ slept = 1
    /\ sm_result.error[1].type = "CancelledError"


----------------------------------------------------------------------------
(* Sequential attempts *)

\* Remote calls issued and not yet resolved.  A cancelled call counts as
\* resolved: its await was abandoned.
Outstanding == IF pc = "cancelled" THEN 0 ELSE calls - Len(responses)

\* C13: attempts of one invocation are strictly sequential.  At most one
\* remote call is outstanding; when call number n+1 has been issued, calls
\* 1..n have resolved, each with a failure, and n backoff sleeps have been
\* started and completed; a step never issues more than one call, and it
\* issues one only when no call is outstanding and no sleep is pending.
C13_StrictlySequential ==
    /\ [](Outstanding \in {0, 1})
    /\ [](Outstanding = 1 <=> pc = "awaiting_call")
    /\ [](calls >= 1 /\ pc # "cancelled" =>
            /\ Len(responses) >= calls - 1
            /\ slept >= calls - 1
            /\ \A n \in 1..(calls - 1) : ~Valid(responses[n]))
    /\ [](pc = "sleeping" <=> (slept = Len(sleeps) - 1 /\ pc # "cancelled"))
    /\ [](pc # "sleeping" /\ pc # "cancelled" => slept = Len(sleeps))
    /\ [][calls' # calls =>
            /\ calls' = calls + 1
            /\ Len(responses) = calls
            /\ slept' = Len(sleeps')
            /\ slept' = calls]_vars

\* The third attempt is outstanding after two resolved calls and two
\* completed sleeps.
C13_Witness ==
    /\ pc = "awaiting_call"
    /\ calls = 3 /\ Len(responses) = 2 /\ slept = 2


----------------------------------------------------------------------------
(* Concurrent requests *)

\* The message list request r has to send: the prompt, its own history, its
\* own message (the inputs of two concurrent requests are well formed).
OwnMessages(r) ==
    <<[role |-> "system", content |-> system_prompt]>>
        \o task[r].conversation_history
        \o <<[role |-> "user", content |-> task[r].user_message]>>

\* The class of the last failure among the responses delivered to request r,
\* "none" when no call of r has failed.
OwnLastFailure(r) ==
    LET rs == task[r].responses
        failed == {n \in DOMAIN rs : ~Valid(rs[n])}
    IN  IF failed = {} THEN "none"
        ELSE FailureClass(rs[CHOOSE n \in failed : \A m \in failed : m <= n])

\* What request r observes: its inputs, the responses delivered to its own
\* calls, the sleeps completed for it, and whether it was cancelled.
Observed(r) ==
    <<task[r].user_message, task[r].conversation_history,
      task[r].responses, task[r].slept,
      task[r].pc = "received", task[r].pc = "cancelled">>

\* C14: with two concurrent requests, in every interleaving, the attempt
\* counter, the last recorded error, the outbound message set and the final
\* outcome of each request are determined by its own inputs and the
\* responses to its own calls; a step of one request leaves everything of
\* the other unchanged, and two requests that observed the same have the
\* same state.
C14_RequestsAreIsolated ==
    /\ [](\A r \in DOMAIN task :
            task[r].pc # "received" =>
            /\ View(r).messages = OwnMessages(r)
            /\ \A n \in DOMAIN task[r].sent :
                  task[r].sent[n].messages = OwnMessages(r)
            /\ View(r).attempt = task[r].calls - 1
            /\ View(r).attempt = task[r].slept
                  \/ task[r].pc = "cancelled"
            /\ IF OwnLastFailure(r) = "none"
               THEN View(r).last_error = <<>>
               ELSE /\ View(r).last_error # <<>>
                    /\ View(r).last_error[1].type = OwnLastFailure(r)
            /\ task[r].pc = "done" =>
                  IF Valid(Last(task[r].responses))
                  THEN /\ task[r].sm_result.kind = "return"
                       /\ task[r].sm_result.value
                             = TextOf(Last(task[r].responses))
                       /\ task[r].http.response
                             = TextOf(Last(task[r].responses))
                  ELSE /\ task[r].sm_result.kind = "raise"
                       /\ task[r].sm_result.error[1].type
                             = FailureClass(Last(task[r].responses)))
    /\ [](\A r, q \in DOMAIN task :
            Observed(r) = Observed(q) => View(r) = View(q))
    /\ [][\E r \in DOMAIN task :
            \A q \in DOMAIN task \ {r} : View(q)' = View(q)]_vars

\* Both requests are in flight with different message sets; the first has
\* failed once and is at its second attempt, the second at its first.
C14_Witness ==
    /\ DOMAIN task = {1, 2}
    /\ task[1].pc = "awaiting_call" /\ task[2].pc = "awaiting_call"
    /\ task[1].calls = 2 /\ task[2].calls = 1
    /\ View(1).messages # View(2).messages
    /\ View(1).attempt = 1 /\ View(2).attempt = 0
    /\ View(1).last_error # <<>> /\ View(2).last_error = <<>>


----------------------------------------------------------------------------
(* The dispatched message set *)

\* A message set fit for dispatch: a system Turn and a user Turn are present,
\* every role is one of the three, and no content is blank.
FitForDispatch(msgs) ==
    /\ \E k \in DOMAIN msgs : msgs[k].role = "system"
    /\ \E k \in DOMAIN msgs : msgs[k].role = "user"
    /\ \A k \in DOMAIN msgs :
          /\ msgs[k].role \in {"system", "user", "assistant"}
          /\ ~Blank(msgs[k].content)

\* C15: every message set dispatched to the remote API holds at least one
\* system Turn and one user Turn, with every role in {system, user,
\* assistant} and every content non-blank; whatever _build_messages returns
\* is such a set and passes _validate_messages without raising.
C15_DispatchedSetIsValid ==
    /\ \A n \in DOMAIN sent : FitForDispatch(sent[n].messages)
    /\ calls > 0 => FitForDispatch(messages)
    /\ LET b == build_messages(system_prompt, user_message,
                               conversation_history)
       IN  b.ok => /\ FitForDispatch(b.messages)
                   /\ validate_messages(b.messages) = <<>>

\* A set of four Turns, built from a history of two, has been dispatched.
C15_Witness ==
    /\ calls >= 1
    /\ Len(sent[1].messages) = 4
    /\ build_messages(system_prompt, user_message, conversation_history).ok


----------------------------------------------------------------------------
(* The first violation *)

\* The positions (from 1) of the history entries that are not well formed.
InvalidEntries ==
    { k \in DOMAIN conversation_history :
        ~WellFormedEntry(conversation_history[k]) }

LowestInvalid == CHOOSE k \in InvalidEntries : \A m \in InvalidEntries : k <= m

\* C16: build fails on the first violation and returns nothing of what it
\* had assembled.  A blank system prompt is reported before anything else;
\* otherwise the invalid history entry of lowest index is reported (by its
\* index counted from 0, role before content), also when the user message is
\* blank as well; otherwise a blank user message is reported; otherwise
\* build succeeds.  send_message raises that very failure before any call.
C16_FirstViolationReported ==
    /\ LET b == build_messages(system_prompt, user_message, conversation_history)
           e == b.error[1]
       IN  /\ ~b.ok => b.messages = <<>> /\ e.type = "ValueError"
           /\ IF Blank(system_prompt)
              THEN ~b.ok /\ e.msg = "System prompt cannot be empty"
                         /\ e.index = <<>>
              ELSE IF InvalidEntries # {}
              THEN /\ ~b.ok
                   /\ e.index = <<LowestInvalid - 1>>
                   /\ e.msg # "User message cannot be empty"
                   /\ e.msg = "history: invalid role"
                        <=> conversation_history[LowestInvalid].role
                               \notin {"user", "assistant", "system"}
              ELSE IF Blank(user_message)
              THEN ~b.ok /\ e.msg = "User message cannot be empty"
                         /\ e.index = <<>>
              ELSE b.ok
           /\ pc # "received" /\ ~b.ok =>
                 /\ sm_result.kind = "raise" /\ sm_result.site = "prepare"
                 /\ sm_result.error = b.error
                 /\ messages = <<>> /\ calls = 0

\* Both history entries are invalid and the user message is blank: the
\* request failed naming entry 0.
C16_Witness ==
    /\ pc = "done" /\ sm_result.site = "prepare"
    /\ ~Blank(system_prompt) /\ Blank(user_message)
    /\ InvalidEntries = {1, 2}
    /\ sm_result.error[1].index = <<0>>


----------------------------------------------------------------------------
(* Order and content of the assembled sequence *)

\* C17: the sequence build returns is the system Turn, then the caller's
\* history, entry by entry in the caller's order with role and content as
\* given (untrimmed), then the user Turn with the message as given; for an
\* empty history it is exactly <<system, user>>.  That sequence is what the
\* invocation holds and dispatches.
C17_HistoryOrderPreserved ==
    /\ LET b == build_messages(system_prompt, user_message, conversation_history)
           n == Len(conversation_history)
       IN  /\ b.ok =>
                 /\ Len(b.messages) = n + 2
                 /\ b.messages[1] = [role |-> "system", content |-> system_prompt]
                 /\ b.messages[n + 2] = [role |-> "user", content |-> user_message]
                 /\ \A k \in 1..n :
                       /\ b.messages[k + 1].role = conversation_history[k].role
                       /\ b.messages[k + 1].content
                             = conversation_history[k].content
                 /\ n = 0 => b.messages =
                                <<[role |-> "system", content |-> system_prompt],
                                  [role |-> "user", content |-> user_message]>>
           /\ calls > 0 => b.ok /\ messages = b.messages

\* A history of two, the first entry padded with whitespace, was dispatched
\* with the padding in place.
C17_Witness ==
    /\ calls >= 1
    /\ Len(conversation_history) = 2
    /\ conversation_history[1].content = <<" ", "a", "\n">>
    /\ conversation_history[2].role = "system"
    /\ sent[1].messages[2].content = <<" ", "a", "\n">>
    /\ sent[1].messages[3].role = "system"


----------------------------------------------------------------------------
(* What a request leaves unchanged *)

\* C18: no step of a request modifies the caller's conversation history (or
\* message); every attempt of the invocation sends the same message set, the
\* one assembled before the loop, with the same generation parameters; and
\* once assembled the message set is not changed by a failed attempt, a
\* backoff sleep or anything else.
C18_SameRequestEveryAttempt ==
    /\ [][/\ conversation_history' = conversation_history
          /\ user_message' = user_message]_vars
    /\ [](\A n \in DOMAIN sent :
            /\ sent[n] = sent[1]
            /\ sent[n].messages = messages
            /\ sent[n].max_tokens = 1024
            /\ sent[n].temperature = "0.44"
            /\ sent[n].top_p = "0.9"
            /\ sent[n].frequency_penalty = "0.3")
    /\ [](Len(sent) = calls)
    /\ [][pc # "received" =>
            /\ messages' = messages
            /\ \A n \in DOMAIN sent : sent'[n] = sent[n]]_vars

\* Four attempts were made for a request with a history of two.
C18_Witness ==
    /\ Len(sent) = 4
    /\ sent[4] = sent[1]
    /\ Len(sent[4].messages) = 4
    /\ Len(sleeps) = 3


----------------------------------------------------------------------------
(* Termination *)

Terminated == pc \in {"done", "cancelled"}

\* C19: when every remote call and every backoff sleep eventually resolves,
\* every invocation eventually terminates, whatever the upstream answers:
\* it returns a validated text or raises a failure.  It never terminates
\* from the code after the attempt loop.
C19_InvocationTerminates ==
    /\ <>Terminated
    /\ [](Terminated =>
            \/ sm_result.kind = "return" /\ Valid(Last(responses))
                  /\ sm_result.value = TextOf(Last(responses))
            \/ sm_result.kind = "raise" /\ sm_result.error # <<>>)
    /\ [](sm_result.site # "safety_net")
    /\ [](Terminated => ~ENABLED Next)

\* All four attempts failed with an unexpected exception and the invocation
\* terminated from inside the loop.
C19_Witness ==
    /\ pc = "done"
    /\ sm_result.site = "exhausted"
    /\ RaisedClass = "Exception"
    /\ slept = 3

----------------------------------------------------------------------------
(* Sleeps and calls at termination *)

\* C20: when a completion invocation (one that entered the attempt loop)
\* terminates by return or by raise, not by cancellation, it has performed
\* one backoff sleep fewer than it has issued remote calls; the k-th sleep
\* starts in the step that delivers the failure of the k-th call, so every
\* sleep has the failed call of its number before it.
C20_SleepsAreCallsMinusOne ==
    /\ [](pc = "done" /\ calls >= 1 =>
            /\ Len(sleeps) = calls - 1
            /\ slept = calls - 1)
    /\ [](/\ Len(sleeps) <= Len(responses)
          /\ \A k \in DOMAIN sleeps : ~Valid(responses[k]))
    /\ [][Len(sleeps') # Len(sleeps) =>
            /\ Len(sleeps') = Len(sleeps) + 1
            /\ Len(responses') = Len(sleeps')
            /\ Len(responses) = Len(sleeps)
            /\ ~Valid(responses'[Len(sleeps')])
            /\ calls' = Len(sleeps')]_vars

\* The third call came back with degenerate content after two sleeps and
\* the invocation raised at once.
C20_Witness ==
    /\ pc = "done"
    /\ sm_result.site = "no_retry"
    /\ calls = 3
    /\ Len(sleeps) = 2
    /\ Degenerate(responses[3])

----------------------------------------------------------------------------
(* health_check beside the request (SpecService) *)

\* Every create() of health_check carries one user Turn, no system Turn and
\* max_tokens 5; at most one of them is outstanding; health_check returns
\* True exactly when create() gave a response with a choice.
HealthCheckDispatch ==
    /\ \A n \in DOMAIN health.sent :
          /\ health.sent[n] = health_check_args
          /\ Len(health.sent[n].messages) = 1
          /\ health.sent[n].messages[1].role = "user"
          /\ health.sent[n].max_tokens = 5
    /\ Len(health.returned) = Len(health.responses)
    /\ Len(health.sent) - Len(health.responses)
          = IF health.pc = "idle" THEN 0 ELSE 1
    /\ \A n \in DOMAIN health.returned :
          health.returned[n] <=> /\ health.responses[n].kind = "response"
                                 /\ health.responses[n].choices # <<>>

\* A step of health_check changes nothing of the request or of its
\* send_message invocation, and a step of the request changes nothing of
\* health_check.
HealthCheckApart ==
    [][IF health' # health
       THEN /\ task' = [task EXCEPT ![1].health = health']
            /\ locals' = locals
       ELSE TRUE]_vars

\* health_check was called while the request awaited its first create(), and
\* returned False for a response without choices.
HealthCheckReached ==
    /\ pc = "awaiting_call"
    /\ calls = 1
    /\ health.pc = "idle"
    /\ Len(health.sent) = 1
    /\ health.returned = <<FALSE>>
    /\ health.responses[1].kind = "response"

====
